---- MODULE Spec2Model ----
(***************************************************************************)
(* Model of desktop_app.py: the CameraApp tick loop (update_frame), the    *)
(* enrollment session (prepare_to_add_user / complete_add_user), the       *)
(* module-level recognized_faces_cache and the two HTTP calls.             *)
(*                                                                         *)
(* The program is single threaded.  A handler is cut into steps only at    *)
(* the calls that block it (requests.post, simpledialog.askstring); the    *)
(* per-face loop of update_frame takes one step per face.  Modal dialogs   *)
(* (tkinter messagebox / simpledialog hold the input grab) keep the two    *)
(* buttons from being pressed while they are open, so a button handler     *)
(* runs only between ticks or when no tick is scheduled.                   *)
(***************************************************************************)
EXTENDS Integers, Sequences, FiniteSets, TLC

\* ---- bounds of the model ------------------------------------------------
NumCrops == 2        \* distinct encoded crops (byte strings) the camera yields
MaxFaces == 2        \* faces the detector returns for one frame

\* ---- program constants --------------------------------------------------
num_photos == 5

Unknown == "Unknown"
None == "<None>"                      \* Python None (askstring cancelled)
NoLabel == "<box>"                    \* a rectangle drawn without a label

Crops == 1..NumCrops                  \* img_encoded.tobytes()
ServerNames == {"Alice"}              \* identities the server can answer
UserNames == {"Bob"}                  \* non-empty names typed in the prompt
PromptResults == UserNames \cup {"", None}
NoCrop == 0                           \* the last step handled no face
NoPrompt == "<unset>"                 \* user_name is not bound

\* outcomes of requests.post(recognize_url) followed by raise_for_status/json
\*   ok      2xx, JSON object with a 'name'
\*   noname  2xx, JSON object without 'name'
\*   transport  requests.post raises ConnectionError / Timeout
\*   http    non-2xx: raise_for_status raises HTTPError
\*   raise   an exception that is no RequestException (the body is JSON but
\*           not an object, so .get raises AttributeError, ...)
RecognizeOutcomes ==
    {[kind |-> "ok", name |-> n] : n \in ServerNames \cup {Unknown}}
      \cup {[kind |-> k, name |-> Unknown] :
                k \in {"noname", "transport", "http", "raise"}}

\* outcomes of requests.post(add_user_url) followed by raise_for_status/json
\*   ok, fail (RequestException), raise (any other exception)
AddUserOutcomes == {"ok", "fail", "raise"}

NoRequest == [name |-> None, files |-> <<>>]

\* outcomes of lines 26-47 of __init__
\*   ok         the webcam opens and the cascade loads
\*   nocamera   isOpened() is false: IOError at line 29
\*   nocascade  the webcam is open, load_cascade raises at line 62
StartupOutcomes == {"ok", "nocamera", "nocascade"}

VARIABLES
    adding_user_mode,        \* self.adding_user_mode
    encodings,               \* self.encodings
    recognized_faces_cache,  \* module-level dict: digest -> name
    pc,                      \* where the event loop / the active tick stands
    tickMode,                \* the branch line 84 took in the active tick
    faces,                   \* len(faces) of the frame of the active tick
    idx,                     \* position of the for loop in faces
    user_name,               \* local of complete_add_user
    video_open,              \* self.video_capture.isOpened()
    startup,                 \* how lines 26-47 of __init__ ended
    timers,                  \* update_frame callbacks pending in root.after
    \* history variables, each about the last step only
    lastStep,                \* name of the last step taken
    crop,                    \* encoded crop the last step handled
    drawn,                   \* label the last step drew on the frame
    lastCall,                \* endpoint the last step sent a request to
    lastResult,              \* outcome of the request the last step completed
    sent,                    \* add_user request the last step sent
    lastDialog,              \* messagebox the last step opened
    tickEnd,                 \* how the last step ended its tick
    discarded,               \* samples the last step threw away
    \* history variables of the run
    captured,                \* crops captured since the last Add User
    restarted,               \* the running session began by discarding samples
    prevLookup,              \* digest -> label its latest lookup drew, and
                             \* whether the server or the cache gave it
    prompted,                \* the name prompt was opened since Add User
    startMode,               \* adding_user_mode when the active tick began
    shutdownLog              \* release() and root.quit() calls, in order

vars == <<adding_user_mode, encodings, recognized_faces_cache, pc, tickMode,
          faces, idx, user_name, video_open, lastStep, crop, drawn,
          lastCall, lastResult, sent, lastDialog, tickEnd, captured,
          restarted, prevLookup, startup, timers, discarded, prompted,
          startMode, shutdownLog>>

\* ---- pure helpers -------------------------------------------------------

\* hashlib.sha256(encoding).hexdigest(): distinct bytes, distinct digests
hash_face_encoding(encoding) == <<"sha256", encoding>>

\* variant: the test of line 138 written as "user_name is not None"
TruthyNotNone(s) == s # None

\* Python truthiness of the askstring result (line 138)
Truthy(s) == s # None /\ s # ""

EmptyDict == [h \in {} |-> Unknown]

\* d[k] = v
DictSet(d, k, v) == [h \in DOMAIN d \cup {k} |-> IF h = k THEN v ELSE d[h]]

\* response.json().get('name', 'Unknown')  (line 109)
JsonName(outcome) == IF outcome.kind = "ok" THEN outcome.name ELSE Unknown

\* the try block of lines 107-110 ran to its end
Answered(outcome) == outcome.kind \in {"ok", "noname"}

\* variant: line 114 catches requests.exceptions.ConnectionError only
EscapesHttp(outcome) == outcome.kind \in {"raise", "http"}

\* the exception of the outcome passes the except clause of line 114
Escapes(outcome) == outcome.kind = "raise"

\* variant: line 110 left out
CacheAfterMissNoStore(cache, h, outcome) == cache

\* variant: the except clause of lines 114-116 stores "Unknown" as well
CacheAfterMissAlways(cache, h, outcome) ==
    IF outcome.kind # "raise"
    THEN DictSet(cache, h, JsonName(outcome))
    ELSE cache

\* variant: line 110 written as a rebinding of the whole dict
CacheAfterMissFresh(cache, h, outcome) ==
    IF Answered(outcome)
    THEN DictSet(EmptyDict, h, JsonName(outcome))
    ELSE cache

\* the cache after a miss whose request ended with outcome (lines 107-116)
CacheAfterMiss(cache, h, outcome) ==
    IF Answered(outcome)
    THEN DictSet(cache, h, JsonName(outcome))
    ELSE cache

\* variant: line 93 written with ">"
SessionCompleteStrict(encs) == Len(encs) > num_photos

\* len(self.encodings) >= self.num_photos  (line 93)
SessionComplete(encs) == Len(encs) >= num_photos

\* files of the add_user request (line 140)
RequestFiles(encs) == [i \in 1..Len(encs) |-> encs[i]]

\* variant: line 135 left out
ModeKept(mode) == mode

\* self.adding_user_mode = False  (line 135)
ModeAfterComplete(mode) == FALSE

\* self.encodings after complete_add_user (lines 134-149 never assign it)
EncodingsAfterComplete(encs) == encs

\* variant: line 131 left out
EncodingsKept(encs) == encs

\* self.encodings = []  (line 131)
EncodingsAfterPrepare(encs) == <<>>

\* variant: line 130 written as a toggle
ModeAfterPrepareToggle(mode) == ~mode

\* self.adding_user_mode = True  (line 130)
ModeAfterPrepare(mode) == TRUE

\* variant: prepare_to_add_user starts the loop itself
TimersAfterPrepareKick(t) == t + 1

\* pending callbacks after prepare_to_add_user (lines 129-132: no root.after)
TimersAfterPrepare(t) == t

\* variant: the else branch of line 97 taken in adding-user mode
BranchInverted(mode) == ~mode

\* the branch of "if self.adding_user_mode" (line 84): TRUE is lines 85-95
BranchTaken(mode) == mode

\* variant: quit without the isOpened() test of line 160
QuitEventsUnguarded(open) == <<"release", "root.quit">>

\* the calls quit makes, in order (lines 160-162)
QuitEvents(open) ==
    IF open THEN <<"release", "root.quit">> ELSE <<"root.quit">>

\* variant: update_frame called before the checks of lines 28 and 47
PcAfterInitAlways(outcome) == "first"

\* pc after lines 26-47: line 48 calls update_frame only when nothing was
\* raised; after line 53 the event loop of line 168 runs with no callback
PcAfterInit(outcome) == IF outcome = "ok" THEN "first" ELSE "stopped"

\* pc after the except clause of update_frame (lines 125-127): no root.after
AfterException == "stopped"

\* variant: line 123 left out
AfterRenderNoTimer == "stopped"

\* pc after lines 120-123: frame rendered, root.after(10, update_frame)
AfterRender == "scheduled"

\* variant: lines 72-73 return without root.after
AfterReadFailNoTimer == "stopped"

\* pc after lines 72-73: root.after(10, update_frame)
AfterReadFail == "scheduled"

TypeOK ==
    /\ adding_user_mode \in BOOLEAN
    /\ encodings \in Seq(Crops)
    /\ DOMAIN recognized_faces_cache
          \subseteq {hash_face_encoding(c) : c \in Crops}
    /\ \A h \in DOMAIN recognized_faces_cache :
          recognized_faces_cache[h] \in ServerNames \cup {Unknown}
    /\ pc \in {"first", "scheduled", "faces", "prompt", "post", "stopped",
               "quit", "start"}
    /\ startup \in StartupOutcomes \cup {"pending"}
    /\ timers \in 0..1
    /\ discarded \in 0..num_photos
    /\ prompted \in BOOLEAN
    /\ startMode \in BOOLEAN
    /\ shutdownLog \in Seq({"release", "root.quit"})
    /\ tickMode \in BOOLEAN
    /\ faces \in 0..MaxFaces
    /\ idx \in 0..MaxFaces
    /\ user_name \in PromptResults \cup {NoPrompt}
    /\ video_open \in BOOLEAN
    /\ crop \in Crops \cup {NoCrop}
    /\ lastCall \in {"none", "recognize", "add_user"}
    /\ tickEnd \in {"none", "retry", "rendered", "error"}
    /\ captured \in Seq(Crops)
    /\ restarted \in BOOLEAN

\* ---- initial state: before CameraApp(root) of line 167 -------------------
Init ==
    /\ adding_user_mode = FALSE
    /\ encodings = <<>>
    /\ recognized_faces_cache = EmptyDict
    /\ pc = "start"
    /\ tickMode = FALSE
    /\ faces = 0
    /\ idx = 0
    /\ user_name = NoPrompt
    /\ video_open = FALSE
    /\ startup = "pending"
    /\ timers = 0
    /\ discarded = 0
    /\ prompted = FALSE
    /\ startMode = FALSE
    /\ shutdownLog = <<>>
    /\ lastStep = "start"
    /\ crop = NoCrop
    /\ drawn = "none"
    /\ lastCall = "none"
    /\ lastResult = "none"
    /\ sent = NoRequest
    /\ lastDialog = "none"
    /\ tickEnd = "none"
    /\ captured = <<>>
    /\ restarted = FALSE
    /\ prevLookup = EmptyDict

\* the step sends no request and no request of it completes
NoRequestMade ==
    /\ lastCall' = "none"
    /\ lastResult' = "none"
    /\ sent' = NoRequest

\* the step handles no face
NoFace ==
    /\ crop' = NoCrop
    /\ drawn' = "none"

\* update_frame can start: line 48 calls it, or the event loop is idle and
\* a callback is pending
TickDue == pc = "first" \/ (pc \in {"scheduled", "stopped"} /\ timers > 0)

\* pending callbacks once the callback that starts in this step is taken
\* off the queue (the call of line 48 takes none)
TimerFired == IF pc \in {"scheduled", "stopped"} THEN timers - 1 ELSE timers

\* lines 26-53: __init__ with its three outcomes
CameraApp_init(outcome) ==
    /\ pc = "start"
    /\ lastStep' = "init"
    /\ startup' = outcome
    /\ pc' = PcAfterInit(outcome)
    /\ IF outcome = "ok"
       THEN /\ video_open' = TRUE
            /\ lastDialog' = "none"
            /\ shutdownLog' = shutdownLog
       ELSE \* lines 50-53: showerror, then quit() on the handle as it is
            /\ video_open' = FALSE
            /\ lastDialog' = "error"
            /\ shutdownLog' = shutdownLog \o QuitEvents(outcome = "nocascade")
    /\ timers' = 0
    /\ discarded' = 0
    /\ tickEnd' = "none"
    /\ NoRequestMade
    /\ NoFace
    /\ UNCHANGED <<adding_user_mode, encodings, recognized_faces_cache,
                   tickMode, faces, idx, user_name, captured, restarted,
                   prevLookup, prompted, startMode>>

\* end of the active tick: the locals are gone
TickOver(how, nextpc) ==
    /\ pc' = nextpc
    /\ tickEnd' = how
    /\ tickMode' = FALSE
    /\ startMode' = FALSE
    /\ faces' = 0
    /\ idx' = 0
    /\ timers' = IF nextpc = "scheduled" THEN TimerFired + 1 ELSE TimerFired

\* the for loop moves on after face idx; after the last face lines 120-123 run
LoopNext ==
    IF idx < faces
    THEN /\ pc' = "faces"
         /\ idx' = idx + 1
         /\ tickEnd' = "none"
         /\ UNCHANGED <<faces, tickMode, startMode, timers>>
    ELSE TickOver("rendered", AfterRender)

\* ---- update_frame -------------------------------------------------------

\* lines 70-73: read fails, retry on the next tick
ReadFail ==
    /\ TickDue
    /\ discarded' = 0
    /\ lastStep' = "readfail"
    /\ TickOver("retry", AfterReadFail)
    /\ NoRequestMade
    /\ NoFace
    /\ lastDialog' = "none"
    /\ user_name' = NoPrompt
    /\ UNCHANGED <<adding_user_mode, encodings, recognized_faces_cache,
                   video_open, captured, restarted, prevLookup, startup,
                   prompted, shutdownLog>>

\* lines 75-82 raise (cv2.error): except clause, lines 125-127
ProcessingError ==
    /\ TickDue
    /\ discarded' = 0
    /\ lastStep' = "processingerror"
    /\ TickOver("error", AfterException)
    /\ lastDialog' = "error"
    /\ NoRequestMade
    /\ NoFace
    /\ user_name' = NoPrompt
    /\ UNCHANGED <<adding_user_mode, encodings, recognized_faces_cache,
                   video_open, captured, restarted, prevLookup, startup,
                   prompted, shutdownLog>>

\* lines 70-84: a frame with n faces; with no face the loops are skipped and
\* lines 120-123 run at once
ReadFrame(n) ==
    /\ TickDue
    /\ discarded' = 0
    /\ lastStep' = "readframe"
    /\ IF n = 0
       THEN TickOver("rendered", AfterRender)
       ELSE /\ pc' = "faces"
            /\ tickMode' = BranchTaken(adding_user_mode)
            /\ startMode' = adding_user_mode
            /\ timers' = TimerFired
            /\ faces' = n
            /\ idx' = 1
            /\ tickEnd' = "none"
    /\ NoRequestMade
    /\ NoFace
    /\ lastDialog' = "none"
    /\ user_name' = NoPrompt
    /\ UNCHANGED <<adding_user_mode, encodings, recognized_faces_cache,
                   video_open, captured, restarted, prevLookup, startup,
                   prompted, shutdownLog>>

\* lines 85-95: one face, encoded as c, in adding-user mode
EnrollFace(c) ==
    /\ pc = "faces"
    /\ tickMode
    /\ lastStep' = "enroll"
    /\ crop' = c
    /\ drawn' = NoLabel
    /\ encodings' = Append(encodings, c)
    /\ captured' = Append(captured, c)
    /\ IF SessionComplete(encodings')
       THEN \* complete_add_user, line 135, then blocked in askstring
            /\ adding_user_mode' = ModeAfterComplete(adding_user_mode)
            /\ pc' = "prompt"
            /\ prompted' = TRUE
            /\ tickEnd' = "none"
            /\ UNCHANGED <<faces, idx, tickMode, startMode, timers>>
       ELSE /\ adding_user_mode' = adding_user_mode
            /\ prompted' = prompted
            /\ LoopNext
    /\ NoRequestMade
    /\ lastDialog' = "none"
    /\ discarded' = 0
    /\ UNCHANGED <<recognized_faces_cache, user_name, video_open,
                   restarted, prevLookup, startup, shutdownLog>>

\* lines 99-104, 118: one face in recognition mode, digest in the cache
RecognizeHit(c) ==
    /\ pc = "faces"
    /\ ~tickMode
    /\ LET h == hash_face_encoding(c) IN
         /\ h \in DOMAIN recognized_faces_cache
         /\ drawn' = recognized_faces_cache[h]
         /\ prevLookup' = DictSet(prevLookup, h,
                                  [label |-> recognized_faces_cache[h],
                                   served |-> TRUE])
    /\ lastStep' = "hit"
    /\ crop' = c
    /\ LoopNext
    /\ NoRequestMade
    /\ lastDialog' = "none"
    /\ discarded' = 0
    /\ UNCHANGED <<adding_user_mode, encodings, recognized_faces_cache,
                   user_name, video_open, captured, restarted, startup,
                   prompted, shutdownLog>>

\* lines 99-118: one face in recognition mode, digest not in the cache
RecognizeMiss(c, outcome) ==
    /\ pc = "faces"
    /\ ~tickMode
    /\ LET h == hash_face_encoding(c) IN
         /\ h \notin DOMAIN recognized_faces_cache
         /\ recognized_faces_cache' =
                CacheAfterMiss(recognized_faces_cache, h, outcome)
         /\ prevLookup' = IF Escapes(outcome)
                          THEN prevLookup
                          ELSE DictSet(prevLookup, h,
                                       [label |-> JsonName(outcome),
                                        served |-> Answered(outcome)])
    /\ lastStep' = "miss"
    /\ crop' = c
    /\ lastCall' = "recognize"
    /\ lastResult' = outcome.kind
    /\ sent' = NoRequest
    /\ IF Escapes(outcome)
       THEN \* escapes to the except clause, lines 125-127
            /\ TickOver("error", AfterException)
            /\ lastDialog' = "error"
            /\ drawn' = "none"
       ELSE /\ drawn' = JsonName(outcome)
            /\ lastDialog' = "none"
            /\ LoopNext
    /\ discarded' = 0
    /\ UNCHANGED <<adding_user_mode, encodings, user_name,
                   video_open, captured, restarted, startup, prompted,
                   shutdownLog>>

\* ---- complete_add_user --------------------------------------------------

\* lines 136-141, 148-149: askstring returns name
NamePrompt(name) ==
    /\ pc = "prompt"
    /\ lastStep' = "prompt"
    /\ user_name' = name
    /\ NoFace
    /\ IF Truthy(name)
       THEN /\ lastCall' = "add_user"
            /\ lastResult' = "none"
            /\ sent' = [name |-> name, files |-> RequestFiles(encodings)]
            /\ pc' = "post"
            /\ tickEnd' = "none"
            /\ lastDialog' = "none"
            \* the loop is left at line 95 whatever follows
            /\ faces' = 0
            /\ idx' = 0
            /\ UNCHANGED <<tickMode, encodings, restarted, startMode,
                           timers>>
       ELSE /\ NoRequestMade
            /\ lastDialog' = "warning"
            /\ encodings' = EncodingsAfterComplete(encodings)
            /\ restarted' = FALSE
            \* line 95: break, then lines 120-123
            /\ TickOver("rendered", AfterRender)
    /\ discarded' = 0
    /\ UNCHANGED <<adding_user_mode, recognized_faces_cache,
                   video_open, captured, prevLookup, startup, prompted,
                   shutdownLog>>

\* lines 141-147: the add_user request returns
AddUserResponse(outcome) ==
    /\ pc = "post"
    /\ lastStep' = "response"
    /\ lastCall' = "none"
    /\ lastResult' = outcome
    /\ sent' = NoRequest
    /\ NoFace
    /\ encodings' = EncodingsAfterComplete(encodings)
    /\ restarted' = FALSE
    /\ CASE outcome = "ok" ->
              /\ lastDialog' = "success"
              /\ TickOver("rendered", AfterRender)
         [] outcome = "fail" ->
              /\ lastDialog' = "error"
              /\ TickOver("rendered", AfterRender)
         [] outcome = "raise" ->
              \* not a RequestException: escapes to lines 125-127
              /\ lastDialog' = "error"
              /\ TickOver("error", AfterException)
    /\ discarded' = 0
    /\ UNCHANGED <<adding_user_mode, recognized_faces_cache,
                   user_name, video_open, captured, prevLookup, startup,
                   prompted, shutdownLog>>

\* ---- the two buttons ----------------------------------------------------

\* the buttons exist (lines 34-41 were reached), the event loop runs and no
\* handler is blocked in a request or a dialog
ButtonsEnabled == pc \in {"scheduled", "stopped"} /\ startup # "nocamera"

\* lines 129-132.  The showinfo of line 132 assigns nothing; the ticks that
\* fire in its nested event loop are the ticks of ReadFrame and the rest.
prepare_to_add_user ==
    /\ ButtonsEnabled
    /\ lastStep' = "adduser"
    /\ adding_user_mode' = ModeAfterPrepare(adding_user_mode)
    /\ encodings' = EncodingsAfterPrepare(encodings)
    /\ discarded' = Len(encodings)
    /\ prompted' = FALSE
    /\ timers' = TimersAfterPrepare(timers)
    /\ captured' = <<>>
    /\ restarted' = (encodings # <<>>)
    /\ lastDialog' = "info"
    /\ tickEnd' = "none"
    /\ user_name' = NoPrompt
    /\ NoRequestMade
    /\ NoFace
    /\ UNCHANGED <<recognized_faces_cache, pc, tickMode, faces, idx,
                   video_open, prevLookup, startup, startMode,
                   shutdownLog>>

\* lines 159-162
quit ==
    /\ ButtonsEnabled
    /\ lastStep' = "quit"
    /\ video_open' = FALSE
    /\ shutdownLog' = shutdownLog \o QuitEvents(video_open)
    /\ discarded' = 0
    /\ pc' = "quit"
    /\ tickEnd' = "none"
    /\ lastDialog' = "none"
    /\ user_name' = NoPrompt
    /\ NoRequestMade
    /\ NoFace
    /\ UNCHANGED <<adding_user_mode, encodings, recognized_faces_cache,
                   tickMode, faces, idx, captured, restarted,
                   prevLookup, startup, timers, prompted, startMode>>

Next ==
    \/ \E o \in StartupOutcomes : CameraApp_init(o)
    \/ ReadFail
    \/ ProcessingError
    \/ \E n \in 0..MaxFaces : ReadFrame(n)
    \/ \E c \in Crops : EnrollFace(c)
    \/ \E c \in Crops : RecognizeHit(c)
    \/ \E c \in Crops, o \in RecognizeOutcomes : RecognizeMiss(c, o)
    \/ \E n \in PromptResults : NamePrompt(n)
    \/ \E o \in AddUserOutcomes : AddUserResponse(o)
    \/ prepare_to_add_user
    \/ quit

Spec == Init /\ [][Next]_vars

\* ---- properties --------------------------------------------------------

\* C1: the sample buffer never holds more than num_photos (5) crops, also
\* when a frame has several faces and the buffer is nearly full.
C1_BufferAtMostNumPhotos == Len(encodings) <= num_photos

\* the fifth sample was taken from a frame that has further faces
C1_Witness ==
    /\ pc = "prompt"
    /\ Len(encodings) = num_photos
    /\ idx < faces

\* C2: when the name prompt returns "" or None, the step that handles the
\* answer sends no request at all and opens the warning dialog.
C2_EmptyNameNoRequest ==
    (lastStep = "prompt" /\ user_name \in {"", None}) =>
        /\ lastCall = "none"
        /\ sent = NoRequest
        /\ lastDialog = "warning"
        /\ pc # "post"

\* a completed session whose prompt was answered with the empty string
C2_Witness ==
    /\ lastStep = "prompt"
    /\ user_name = ""
    /\ lastDialog = "warning"
    /\ Len(encodings) = num_photos

\* the last step looked crop up in recognition mode
LookedUp == lastStep \in {"hit", "miss"}

C5_NoFaceTickIsIdle ==
    [][(lastStep' = "readframe" /\ faces' = 0) =>
         /\ lastCall' = "none"
         /\ sent' = NoRequest
         /\ drawn' = "none"
         /\ lastDialog' = "none"
         /\ adding_user_mode' = adding_user_mode
         /\ encodings' = encodings
         /\ recognized_faces_cache' = recognized_faces_cache
         /\ tickEnd' = "rendered"
         /\ pc' = "scheduled"]_vars

\* a tick without faces in the middle of an enrollment session
C5_Witness ==
    /\ lastStep = "readframe"
    /\ faces = 0
    /\ tickEnd = "rendered"
    /\ adding_user_mode
    /\ encodings # <<>>

\* C6: every add_user request carries exactly num_photos crops, those
\* captured since the last Add User in capture order, and the non-empty
\* name that was entered.
C6_RequestCarriesTheSession ==
    lastCall = "add_user" =>
        /\ Len(sent.files) = num_photos
        /\ sent.files = captured
        /\ sent.name \in UserNames
        /\ sent.name = user_name

\* a request of a session that began by discarding earlier samples
C6_Witness ==
    /\ lastCall = "add_user"
    /\ restarted
    /\ \E i, j \in 1..Len(sent.files) : sent.files[i] # sent.files[j]

\* C7: a recognize request that fails with a transport error or a non-2xx
\* status draws "Unknown", opens no error dialog, and the loop goes on to
\* the next face, or after the last face renders and schedules the next
\* tick.
C7_RecognizeFailureIsUnknown ==
    [][(lastCall' = "recognize" /\ lastResult' \in {"transport", "http"}) =>
         /\ drawn' = Unknown
         /\ lastDialog' = "none"
         /\ tickEnd' # "error"
         /\ IF idx < faces
            THEN pc' = "faces" /\ idx' = idx + 1 /\ faces' = faces
            ELSE pc' = "scheduled" /\ tickEnd' = "rendered"]_vars

\* a failed request for a face that is not the last of its frame
C7_Witness ==
    /\ lastCall = "recognize"
    /\ lastResult = "transport"
    /\ drawn = Unknown
    /\ pc = "faces"
    /\ idx = 2

\* complete_add_user has returned in the last step
CompleteReturned ==
    \/ lastStep = "response"
    \/ lastStep = "prompt" /\ pc # "post"

\* C8 as stated: right after complete_add_user returns, on each of its
\* three outcomes, the sample buffer is empty.
C8_AsStated == CompleteReturned => encodings = <<>>

\* C9: the mode leaves Enrolling exactly in the step in which the buffer
\* reaches num_photos, it is Idle after every outcome of the completion,
\* and between ticks Enrolling implies fewer than num_photos samples.
C9_ModeFollowsBuffer ==
    [][/\ (adding_user_mode /\ ~adding_user_mode') =>
             Len(encodings') = num_photos /\ Len(encodings) = num_photos - 1
       /\ (adding_user_mode /\ Len(encodings') >= num_photos) =>
             ~adding_user_mode'
       /\ (pc' \in {"prompt", "post"} \/ CompleteReturned') =>
             ~adding_user_mode'
       /\ (pc' \in {"scheduled", "stopped"} /\ adding_user_mode') =>
             Len(encodings') < num_photos]_vars

\* a completion whose add_user request failed has left the mode Idle
C9_Witness ==
    /\ lastStep = "response"
    /\ lastResult = "fail"
    /\ ~adding_user_mode
    /\ pc = "scheduled"

\* C10 as stated: every step that ends a tick leaves the next tick
\* scheduled.
C10_AsStated == tickEnd # "none" => pc = "scheduled"

\* C11: a tick whose frame read fails (lines 71-73) sends no request and
\* opens no dialog, leaves the mode, the sample buffer and the cache as
\* they were, and leaves exactly one update_frame callback pending, from
\* which the next tick can start.
C11_ReadFailureRetries ==
    [][(lastStep' = "readfail") =>
          /\ lastCall' = "none"
          /\ sent' = NoRequest
          /\ lastDialog' = "none"
          /\ UNCHANGED <<adding_user_mode, encodings, recognized_faces_cache>>
          /\ tickEnd' = "retry"
          /\ timers' = 1
          /\ pc' = "scheduled"
          /\ TickDue']_vars

\* a read fails in the middle of an enrollment session, the cache being
\* non-empty
C11_Witness ==
    /\ lastStep = "readfail"
    /\ adding_user_mode
    /\ encodings # <<>>
    /\ recognized_faces_cache # EmptyDict

\* lines 26-47 raised
StartupFailed == startup \in {"nocamera", "nocascade"}

\* C12: when the webcam cannot be opened or the cascade cannot be loaded,
\* __init__ shows an error dialog, and in every later state of the run no
\* step of update_frame has been taken, no callback is pending, no frame
\* was handled and no request was made.
C12_FailedStartupNeverTicks ==
    StartupFailed =>
        /\ lastStep \in {"init", "adduser", "quit"}
        /\ (lastStep = "init") => (lastDialog = "error")
        /\ ~TickDue
        /\ timers = 0
        /\ tickEnd = "none"
        /\ lastCall = "none"
        /\ sent = NoRequest
        /\ crop = NoCrop
        /\ captured = <<>>
        /\ recognized_faces_cache = EmptyDict

\* the cascade failed to load and Add User was pressed in the window that
\* the event loop still shows
C12_Witness ==
    /\ startup = "nocascade"
    /\ lastStep = "adduser"

\* the webcam was opened at line 27
Opened == startup \in {"ok", "nocascade"}

\* number of release() calls so far
Releases ==
    Cardinality({i \in DOMAIN shutdownLog : shutdownLog[i] = "release"})

\* C13: the webcam is never released twice; once the event loop was ended
\* by Quit, or startup failed after the webcam was opened, it was released
\* exactly once and is closed; and every root.quit() call made with an
\* opened webcam comes after the release.
C13_ReleasedExactlyOnce ==
    /\ Releases <= 1
    /\ (Opened /\ (pc = "quit" \/ StartupFailed)) =>
           (Releases = 1 /\ ~video_open)
    /\ ~Opened => Releases = 0
    /\ \A i \in DOMAIN shutdownLog :
           (Opened /\ shutdownLog[i] = "root.quit") =>
               \E j \in 1..(i - 1) : shutdownLog[j] = "release"

\* Quit pressed after a startup that failed with the webcam open: quit ran
\* twice
C13_Witness ==
    /\ pc = "quit"
    /\ startup = "nocascade"
    /\ Len(shutdownLog) = 3

\* an execution of update_frame is in progress
TickActive == pc \in {"faces", "prompt", "post"}

\* C14: at most one update_frame callback is ever pending, and none is
\* pending while update_frame runs or is blocked in the name prompt or in
\* the request, so that no second execution can start; Add User leaves
\* the number of pending callbacks as it was.
C14_OneTickChain ==
    /\ [](/\ timers <= 1
          /\ (TickActive \/ pc = "first") => (timers = 0)
          /\ TickActive => ~TickDue)
    /\ [][(lastStep' = "adduser") => (timers' = timers)]_vars

\* a tick blocked in the name prompt of a session that Add User restarted
C14_Witness ==
    /\ pc = "prompt"
    /\ restarted
    /\ timers = 0

\* C15: right after Add User the mode is adding-user and the buffer is
\* empty, and while the mode is adding-user, or the session is being
\* completed, the buffer holds exactly the crops captured since the last
\* Add User.
C15_AddUserStartsEmptySession ==
    /\ (lastStep = "adduser") => (adding_user_mode /\ encodings = <<>>)
    /\ (adding_user_mode \/ pc \in {"prompt", "post"}) =>
           (encodings = captured)

\* Add User pressed during a session that had not reached num_photos
C15_Witness ==
    /\ lastStep = "adduser"
    /\ discarded \in 1..(num_photos - 1)

\* C16: the name prompt opens in the step that completes a session, and
\* only if it was not opened since the last Add User; an add_user request
\* is sent only by the step that answers the prompt; and the step that
\* receives a failure shows an error dialog, sends nothing and ends the
\* tick.
C16_OnePromptOneRequest ==
    [][/\ (adding_user_mode /\ ~adding_user_mode') => (pc' = "prompt")
       /\ (pc' = "prompt") => (lastStep' = "enroll" /\ ~prompted)
       /\ (lastCall' = "add_user") => (pc = "prompt" /\ lastStep' = "prompt")
       /\ (lastStep' = "response") =>
              (lastCall' = "none" /\ sent' = NoRequest /\ ~TickActive')
       /\ (lastStep' = "response" /\ lastResult' = "fail") =>
              (lastDialog' = "error")]_vars

\* an add_user request has just failed
C16_Witness ==
    /\ lastStep = "response"
    /\ lastResult = "fail"
    /\ prompted

\* C17: no step removes a cache entry or changes its label, and the only
\* step that adds one is a miss whose recognize request was answered; it
\* adds the digest of the crop it looked up with the label it drew.
C17_CacheOnlyGrows ==
    [][/\ \A h \in DOMAIN recognized_faces_cache :
              /\ h \in DOMAIN recognized_faces_cache'
              /\ recognized_faces_cache'[h] = recognized_faces_cache[h]
       /\ (recognized_faces_cache' # recognized_faces_cache) =>
              /\ lastStep' = "miss"
              /\ lastCall' = "recognize"
              /\ lastResult' \in {"ok", "noname"}
              /\ hash_face_encoding(crop') \notin DOMAIN recognized_faces_cache
              /\ recognized_faces_cache' =
                     DictSet(recognized_faces_cache,
                             hash_face_encoding(crop'), drawn')]_vars

\* a second entry has just been added
C17_Witness ==
    /\ lastStep = "miss"
    /\ lastResult \in {"ok", "noname"}
    /\ Cardinality(DOMAIN recognized_faces_cache) = 2

\* C18: a tick that began in adding-user mode makes no lookup and no
\* recognize request and leaves the cache alone; a tick that began in
\* recognition mode leaves the buffer alone; and once the session is
\* complete the tick handles no further face: only the prompt and the
\* response follow, and then the tick is over.
C18_TickFollowsItsStartMode ==
    [][/\ (TickActive /\ startMode) =>
              /\ lastStep' \notin {"hit", "miss"}
              /\ lastCall' # "recognize"
              /\ UNCHANGED <<recognized_faces_cache, prevLookup>>
       /\ (TickActive /\ ~startMode) =>
              /\ lastStep' # "enroll"
              /\ UNCHANGED <<encodings, captured>>
       /\ (pc \in {"prompt", "post"}) =>
              /\ lastStep' \in {"prompt", "response"}
              /\ crop' = NoCrop
              /\ UNCHANGED <<encodings, captured, recognized_faces_cache>>
              /\ pc' # "faces"]_vars

\* the session is complete and the frame holds a face not yet handled
C18_Witness ==
    /\ pc = "prompt"
    /\ startMode
    /\ idx < faces

====
